---- MODULE Spec2Model ----
(***************************************************************************)
(* HIR MVP (Harm-Integrity-Recovery): the event lifecycle and audit trail  *)
(* of src/app/main.py over the four tables of src/app/database.py.         *)
(*                                                                         *)
(* A table is the sequence of its rows in insertion order.  An Optional    *)
(* value is a sequence of length 0 (None) or 1 (the value).  A formatted   *)
(* identifier is a record of its prefix and the decimal digits of its year *)
(* and of its sequence part.  The random request_id of a log entry and the *)
(* free-text columns that no handler reads back are left out of the rows.  *)
(***************************************************************************)
EXTENDS Integers, Sequences, FiniteSets, TLC

VARIABLES
    events,      \* table h_events
    stops,       \* table h_stops
    recoveries,  \* table recoveries
    log,         \* table observe_logs
    now,         \* the last instant the wall clock returned
    year,        \* the calendar year the wall clock is in
    nPrior,      \* rows of h_events persisted before the first modelled request
    last,        \* the last request served: operation, response, what it saw
    logCap,      \* the number of audit entries the run is followed for
    trace,       \* the successful mutating requests, in order
    reqs         \* the requests in flight, each on a session of its own

vars == <<events, stops, recoveries, log, now, year, nPrior, last, logCap, trace, reqs>>

stores == <<events, stops, recoveries, log>>

----------------------------------------------------------------------------
(* Bounds of the model *)

MaxEvents == 2
MaxStops == 2
MaxRecoveries == 2
MaxLog == 4
MinYear == 2026
MaxYear == 2027

(* Program constants *)

MaxLimit == 1000
DefaultLimit == 100
PadWidth == 5

----------------------------------------------------------------------------
(* Optional values and Python truthiness *)

None == <<>>

Some(v) == <<v>>

TruthyStr(o) == o # None /\ o[1] # ""

TruthyList(o) == o # None /\ Len(o[1]) > 0

Min(a, b) == IF a <= b THEN a ELSE b

----------------------------------------------------------------------------
(* Identifier formatting *)

RECURSIVE Dec(_)
Dec(n) == IF n < 10 THEN <<n>> ELSE Append(Dec(n \div 10), n % 10)

RECURSIVE ZeroPad(_, _)
ZeroPad(ds, w) == IF Len(ds) >= w THEN ds ELSE ZeroPad(<<0>> \o ds, w)

\* a variant that keeps the last five digits
Fmt05d_wrapping(n) == ZeroPad(Dec(n % 100000), PadWidth)

Fmt05d(n) == ZeroPad(Dec(n), PadWidth)

FormatId(prefix, yr, count) ==
    [prefix |-> prefix, year |-> Dec(yr), seq |-> Fmt05d(count)]

generate_h_id(yr, rows) == FormatId("HIR", yr, rows + 1)

generate_stop_id(yr, rows) == FormatId("STOP", yr, rows + 1)

generate_recovery_id(yr, rows) == FormatId("R0", yr, rows + 1)

----------------------------------------------------------------------------
(* Queries *)

\* db.query(T).filter(T.key == id).first(): the index of the row, 0 if none
IndexOf(table, key, id) ==
    IF \E i \in 1..Len(table) : table[i][key] = id
    THEN CHOOSE i \in 1..Len(table) :
             /\ table[i][key] = id
             /\ \A j \in 1..(i - 1) : table[j][key] # id
    ELSE 0

CountEvents == nPrior + Len(events)

\* a variant without the primary key: any insert is accepted
IntegrityError_never(table, key, id) == FALSE

\* the primary key of a table refuses a second row with the same identifier
IntegrityError(table, key, id) == IndexOf(table, key, id) # 0

\* the sessions of two requests that run side by side, and one at rest
Requests == {1, 2}

IdleSlot ==
    [op |-> "none", pc |-> "idle", target |-> None, loaded |-> None, id |-> None,
     arg |-> None, count |-> 0, yr |-> 0, t |-> 0, t2 |-> 0]

NoRequests == [r \in Requests |-> IdleSlot]

----------------------------------------------------------------------------
(* Input domains of the requests *)

Severities == {"critical", "low"}

EventStatuses ==
    {"registered", "investigating", "h_stop_active", "recovering",
     "resolved", "disputed", "false_positive"}

StopMeasures == {"pause"}

ReleaseReasons == {"fixed"}

\* (measures, notes) of a RecoveryCreate body
RecoveryBodies == {<<None, None>>, <<Some(<<"m1">>), Some("n1")>>}

\* RecoveryUpdate bodies: every field omitted, empty or set
RecoveryUpdates ==
    { [status |-> None, measures |-> None, notes |-> None],
      [status |-> Some("in_progress"), measures |-> None, notes |-> None],
      [status |-> Some("completed"), measures |-> None, notes |-> None],
      [status |-> Some(""), measures |-> None, notes |-> None],
      [status |-> None, measures |-> Some(<<"m2">>), notes |-> None],
      [status |-> None, measures |-> Some(<<>>), notes |-> Some("")],
      [status |-> None, measures |-> None, notes |-> Some("n2")],
      [status |-> Some("declined"), measures |-> Some(<<"m2">>), notes |-> Some("n2")] }

Limits == {-1, 0, 1, 2, DefaultLimit, MaxLimit, MaxLimit + 1}

ModuleFilters == {None, Some(""), Some("h_stop")}

\* identifiers no create ever issues (the sequence part starts at 1)
MissingHId == FormatId("HIR", MinYear, 0)

MissingStopId == FormatId("STOP", MinYear, 0)

MissingRecoveryId == FormatId("R0", MinYear, 0)

EventIds == {events[i].h_id : i \in 1..Len(events)}

StopIds == {stops[i].stop_id : i \in 1..Len(stops)}

RecoveryIds == {recoveries[i].recovery_id : i \in 1..Len(recoveries)}

\* narrow payloads, for the specifications that widen something else
OneStatus == {"resolved"}

OneBody == {<<Some(<<"m1">>), Some("n1")>>}

OneUpdate == {[status |-> Some("in_progress"), measures |-> None, notes |-> None]}

AllSeverities == {"low", "medium", "high", "critical"}

TargetFilters == {None} \cup {Some(h) : h \in EventIds}

\* rows of h_events that were persisted before the first modelled request
PriorCounts == {0, 99998, 99999}

----------------------------------------------------------------------------
(* HIR-Observe: the audit append *)

\* a variant that keeps one entry per target: a later action replaces it
log_action_per_target(lg, module, action, target_id, actor, details, t) ==
    LET entry == [id |-> Len(lg) + 1, module |-> module, action |-> action,
                  target_id |-> target_id, actor |-> actor, details |-> details,
                  timestamp |-> t]
    IN  IF \E i \in 1..Len(lg) : lg[i].target_id = target_id
        THEN [i \in 1..Len(lg) |-> IF lg[i].target_id = target_id THEN entry ELSE lg[i]]
        ELSE Append(lg, entry)

\* a variant that journals no recovery update
log_action_but_updates(lg, module, action, target_id, actor, details, t) ==
    IF action = "updated" THEN lg
    ELSE Append(lg, [id |-> Len(lg) + 1, module |-> module, action |-> action,
                     target_id |-> target_id, actor |-> actor, details |-> details,
                     timestamp |-> t])

log_action(lg, module, action, target_id, actor, details, t) ==
    Append(lg, [id |-> Len(lg) + 1, module |-> module, action |-> action,
                target_id |-> target_id, actor |-> actor, details |-> details,
                timestamp |-> t])

\* what a request leaves in "last"
Served(op, code, id, created, evBefore, rowBefore, args, result) ==
    [op |-> op, code |-> code, id |-> id, created |-> created,
     evBefore |-> evBefore, rowBefore |-> rowBefore, args |-> args,
     rep |-> (code = 200 /\ last.code = 200 /\ last.op = op /\ last.id = id
              /\ last.args = args),
     result |-> result]

Did(op, id, arg) == Append(trace, [op |-> op, id |-> id, arg |-> arg])

----------------------------------------------------------------------------
(* H-Event API *)

NewEvent(h_id, sev, t) ==
    [h_id |-> h_id, status |-> "registered", severity |-> sev,
     source_type |-> "automated", created_at |-> t, updated_at |-> t + 1]

CreateEvent(sev) ==
    /\ Len(events) < MaxEvents
    /\ Len(log) < logCap
    /\ LET h_id == generate_h_id(year, CountEvents)
       IN  IF IntegrityError(events, "h_id", h_id)
           THEN \* primary key violation at commit
                /\ last' = Served("create_event", 500, h_id, None, None, None, None, <<>>)
                /\ UNCHANGED <<events, stops, recoveries, log, now, trace>>
           ELSE /\ events' = Append(events, NewEvent(h_id, sev, now + 1))
                /\ log' = log_action(log, "h_event", "created", Some(h_id),
                                     Some("automated"), [severity |-> sev], now + 3)
                /\ now' = now + 3
                /\ last' = Served("create_event", 200, h_id, Some(h_id), None, None, sev, <<>>)
                /\ trace' = Did("create_event", h_id, sev)
                /\ UNCHANGED <<stops, recoveries>>
    /\ UNCHANGED <<year, nPrior, logCap, reqs>>

\* a variant that enforces a transition table: a recovering event stays so
set_event_status_checked(ev, st, t) ==
    IF ev.status = "recovering" THEN ev ELSE [ev EXCEPT !.status = st, !.updated_at = t]

set_event_status(ev, st, t) == [ev EXCEPT !.status = st, !.updated_at = t]

\* a variant that reads the old status after the assignment
status_details_late(ev, st, reason) == [old |-> st, new |-> st, reason |-> reason]

\* update_event_status, old_status and the details of its audit entry
status_details(ev, st, reason) == [old |-> ev.status, new |-> st, reason |-> reason]

\* a variant that closes the event's stops when the event is resolved
UpdateStatus_Cascading(h_id, st, reason) ==
    /\ LET i == IndexOf(events, "h_id", h_id)
           args == <<st, reason>>
       IN  IF i = 0
           THEN /\ last' = Served("update_event_status", 404, h_id, None, None, None, None, <<>>)
                /\ UNCHANGED <<events, stops, recoveries, log, now, trace>>
           ELSE /\ Len(log) < logCap
                /\ events' = [events EXCEPT ![i] = set_event_status(@, st, now + 1)]
                /\ stops' = [k \in 1..Len(stops) |->
                                IF st = "resolved" /\ stops[k].h_id = h_id
                                   /\ stops[k].status = "active"
                                THEN [stops[k] EXCEPT !.status = "released",
                                                      !.released_at = Some(now + 1),
                                                      !.release_reason = Some(reason)]
                                ELSE stops[k]]
                /\ log' = log_action(log, "h_event", "status_updated", Some(h_id), None,
                                     status_details(events[i], st, reason), now + 2)
                /\ now' = now + 2
                /\ last' = Served("update_event_status", 200, h_id, None,
                                  Some(events[i].status), Some(events[i]), args, <<>>)
                /\ trace' = Did("update_event_status", h_id, st)
                /\ UNCHANGED recoveries
    /\ UNCHANGED <<year, nPrior, logCap, reqs>>

UpdateStatus(h_id, st, reason) ==
    /\ LET i == IndexOf(events, "h_id", h_id)
           args == <<st, reason>>
       IN  IF i = 0
           THEN /\ last' = Served("update_event_status", 404, h_id, None, None, None, None, <<>>)
                /\ UNCHANGED <<events, stops, recoveries, log, now, trace>>
           ELSE /\ Len(log) < logCap
                /\ events' = [events EXCEPT ![i] = set_event_status(@, st, now + 1)]
                /\ log' = log_action(log, "h_event", "status_updated", Some(h_id), None,
                                     status_details(events[i], st, reason), now + 2)
                /\ now' = now + 2
                /\ last' = Served("update_event_status", 200, h_id, None,
                                  Some(events[i].status), Some(events[i]), args, <<>>)
                /\ trace' = Did("update_event_status", h_id, st)
                /\ UNCHANGED <<stops, recoveries>>
    /\ UNCHANGED <<year, nPrior, logCap, reqs>>

----------------------------------------------------------------------------
(* H-Stop API *)

NewStop(stop_id, h_id, measure, t) ==
    [stop_id |-> stop_id, h_id |-> h_id, measure |-> measure, status |-> "active",
     initiated_by |-> "system", released_at |-> None, release_reason |-> None,
     created_at |-> t]

\* a variant that respects closed events
stop_event_unless_closed(ev, t) ==
    IF ev.status \in {"resolved", "false_positive"}
    THEN ev
    ELSE [ev EXCEPT !.status = "h_stop_active", !.updated_at = t]

\* activate_stop, "Update event status"
stop_event(ev, t) == [ev EXCEPT !.status = "h_stop_active", !.updated_at = t]

ActivateStop(h_id, measure) ==
    /\ LET i == IndexOf(events, "h_id", h_id)
           stop_id == generate_stop_id(year, Len(stops))
       IN  IF i = 0
           THEN /\ last' = Served("activate_stop", 404, h_id, None, None, None, None, <<>>)
                /\ UNCHANGED <<events, stops, recoveries, log, now, trace>>
           ELSE IF IntegrityError(stops, "stop_id", stop_id)
           THEN \* primary key violation at commit: nothing of the session is persisted
                /\ last' = Served("activate_stop", 500, h_id, None, None, None, None, <<>>)
                /\ UNCHANGED <<events, stops, recoveries, log, now, trace>>
           ELSE /\ Len(stops) < MaxStops
                /\ Len(log) < logCap
                /\ stops' = Append(stops, NewStop(stop_id, h_id, measure, now + 2))
                /\ events' = [events EXCEPT ![i] = stop_event(@, now + 1)]
                /\ log' = log_action(log, "h_stop", "activated", Some(stop_id),
                                     Some("system"), [h_id |-> h_id, measure |-> measure],
                                     now + 3)
                /\ now' = now + 3
                /\ last' = Served("activate_stop", 200, h_id, Some(stop_id),
                                  Some(events[i].status), Some(events[i]), measure, <<>>)
                /\ trace' = Did("activate_stop", stop_id, measure)
                /\ UNCHANGED recoveries
    /\ UNCHANGED <<year, nPrior, logCap, reqs>>

\* a variant that sets the status only
release_row_status_only(st, reason, t) == [st EXCEPT !.status = "released"]

\* release_stop, the stop's own row
release_row(st, reason, t) ==
    [st EXCEPT !.status = "released", !.released_at = Some(t),
               !.release_reason = Some(reason)]

\* a variant that moves the event whatever its status
release_event_always(ev, t) == [ev EXCEPT !.status = "investigating", !.updated_at = t]

\* a variant that keeps the event halted while another stop on it is active
release_event_last_stop(ev, t) ==
    IF ev.status = "h_stop_active"
       /\ Cardinality({j \in 1..Len(stops) :
                          stops[j].h_id = ev.h_id /\ stops[j].status = "active"}) <= 1
    THEN [ev EXCEPT !.status = "investigating", !.updated_at = t]
    ELSE ev

\* release_stop, "Update event status"
release_event(ev, t) ==
    IF ev.status = "h_stop_active"
    THEN [ev EXCEPT !.status = "investigating", !.updated_at = t]
    ELSE ev

\* a variant without the "already released" check
release_check_found_only(table, k) == IF k = 0 THEN 404 ELSE 200

\* release_stop, the guard in front of the mutation: the response code
release_check(table, k) ==
    IF k = 0 THEN 404 ELSE IF table[k].status = "released" THEN 400 ELSE 200

ReleaseStop(stop_id, reason) ==
    /\ LET k == IndexOf(stops, "stop_id", stop_id)
           code == release_check(stops, k)
       IN  IF code # 200
           THEN /\ last' = Served("release_stop", code, stop_id, None, None,
                                  IF k = 0 THEN None ELSE Some(stops[k]), None, <<>>)
                /\ UNCHANGED <<events, stops, recoveries, log, now, trace>>
           ELSE LET i == IndexOf(events, "h_id", stops[k].h_id)
                    touched == i # 0 /\ events[i].status = "h_stop_active"
                    t == IF touched THEN now + 2 ELSE now + 1
                IN  /\ Len(log) < logCap
                    /\ stops' = [stops EXCEPT ![k] = release_row(@, reason, now + 1)]
                    /\ events' = IF i = 0 THEN events
                                 ELSE [events EXCEPT ![i] = release_event(@, now + 2)]
                    /\ log' = log_action(log, "h_stop", "released", Some(stop_id),
                                         Some("operator"), [reason |-> reason], t + 1)
                    /\ now' = t + 1
                    /\ last' = Served("release_stop", 200, stop_id, None,
                                      IF i = 0 THEN None ELSE Some(events[i].status),
                                      Some(stops[k]), reason, <<>>)
                    /\ trace' = Did("release_stop", stop_id, reason)
                    /\ UNCHANGED recoveries
    /\ UNCHANGED <<year, nPrior, logCap, reqs>>

----------------------------------------------------------------------------
(* R-0 Recovery API *)

NewRecovery(recovery_id, h_id, measures, notes, t) ==
    [recovery_id |-> recovery_id, h_id |-> h_id, status |-> "initiated",
     affected_count |-> 0, measures |-> measures, notes |-> notes,
     created_at |-> t, updated_at |-> t + 1]

\* a variant that respects closed events
recover_event_unless_closed(ev, t) ==
    IF ev.status \in {"resolved", "false_positive"}
    THEN ev
    ELSE [ev EXCEPT !.status = "recovering", !.updated_at = t]

\* initiate_recovery, "Update event status"
recover_event(ev, t) == [ev EXCEPT !.status = "recovering", !.updated_at = t]

InitiateRecovery(h_id, body) ==
    /\ LET i == IndexOf(events, "h_id", h_id)
           recovery_id == generate_recovery_id(year, Len(recoveries))
       IN  IF i = 0
           THEN /\ last' = Served("initiate_recovery", 404, h_id, None, None, None, None, <<>>)
                /\ UNCHANGED <<events, stops, recoveries, log, now, trace>>
           ELSE IF IntegrityError(recoveries, "recovery_id", recovery_id)
           THEN \* primary key violation at commit: nothing of the session is persisted
                /\ last' = Served("initiate_recovery", 500, h_id, None, None, None, None, <<>>)
                /\ UNCHANGED <<events, stops, recoveries, log, now, trace>>
           ELSE /\ Len(recoveries) < MaxRecoveries
                /\ Len(log) < logCap
                /\ recoveries' = Append(recoveries,
                                        NewRecovery(recovery_id, h_id, body[1], body[2], now + 2))
                /\ events' = [events EXCEPT ![i] = recover_event(@, now + 1)]
                /\ log' = log_action(log, "r0", "initiated", Some(recovery_id), None,
                                     [h_id |-> h_id, affected |-> 0], now + 4)
                /\ now' = now + 4
                /\ last' = Served("initiate_recovery", 200, h_id, Some(recovery_id),
                                  Some(events[i].status), Some(events[i]), body, <<>>)
                /\ trace' = Did("initiate_recovery", recovery_id, body)
                /\ UNCHANGED stops
    /\ UNCHANGED <<year, nPrior, logCap, reqs>>

\* a variant that assigns the three fields as sent, omitted ones included
apply_update_as_sent(rec, u, t) ==
    [rec EXCEPT !.status = IF TruthyStr(u.status) THEN u.status[1] ELSE @,
                !.measures = u.measures,
                !.notes = u.notes,
                !.updated_at = t]

\* a variant that tests "is not None": an empty value overwrites
apply_update_if_supplied(rec, u, t) ==
    [rec EXCEPT !.status = IF u.status # None THEN u.status[1] ELSE @,
                !.measures = IF u.measures # None THEN u.measures ELSE @,
                !.notes = IF u.notes # None THEN u.notes ELSE @,
                !.updated_at = t]

\* update_recovery, the three "if update.x:" assignments and updated_at
apply_update(rec, u, t) ==
    [rec EXCEPT !.status = IF TruthyStr(u.status) THEN u.status[1] ELSE @,
                !.measures = IF TruthyList(u.measures) THEN u.measures ELSE @,
                !.notes = IF TruthyStr(u.notes) THEN u.notes ELSE @,
                !.updated_at = t]

\* a variant that journals the request before it looks the recovery up
UpdateRecovery_JournalFirst(recovery_id, u) ==
    /\ LET k == IndexOf(recoveries, "recovery_id", recovery_id)
       IN  IF k = 0
           THEN /\ Len(log) < logCap
                /\ log' = log_action(log, "r0", "updated", Some(recovery_id), None,
                                     [status |-> u.status], now + 1)
                /\ now' = now + 1
                /\ last' = Served("update_recovery", 404, recovery_id, None, None, None, None, <<>>)
                /\ UNCHANGED <<events, stops, recoveries, trace>>
           ELSE /\ Len(log) < logCap
                /\ recoveries' = [recoveries EXCEPT ![k] = apply_update(@, u, now + 1)]
                /\ log' = log_action(log, "r0", "updated", Some(recovery_id), None,
                                     [status |-> u.status], now + 2)
                /\ now' = now + 2
                /\ last' = Served("update_recovery", 200, recovery_id, None, None,
                                  Some(recoveries[k]), u, <<>>)
                /\ trace' = Did("update_recovery", recovery_id, u)
                /\ UNCHANGED <<events, stops>>
    /\ UNCHANGED <<year, nPrior, logCap, reqs>>

UpdateRecovery(recovery_id, u) ==
    /\ LET k == IndexOf(recoveries, "recovery_id", recovery_id)
       IN  IF k = 0
           THEN /\ last' = Served("update_recovery", 404, recovery_id, None, None, None, None, <<>>)
                /\ UNCHANGED <<events, stops, recoveries, log, now, trace>>
           ELSE /\ Len(log) < logCap
                /\ recoveries' = [recoveries EXCEPT ![k] = apply_update(@, u, now + 1)]
                /\ log' = log_action(log, "r0", "updated", Some(recovery_id), None,
                                     [status |-> u.status], now + 2)
                /\ now' = now + 2
                /\ last' = Served("update_recovery", 200, recovery_id, None, None,
                                  Some(recoveries[k]), u, <<>>)
                /\ trace' = Did("update_recovery", recovery_id, u)
                /\ UNCHANGED <<events, stops>>
    /\ UNCHANGED <<year, nPrior, logCap, reqs>>

----------------------------------------------------------------------------
(* HIR-Observe API *)

\* query.filter(ObserveLog.module == module), applied when module is truthy
FilterModule(rows, module) ==
    IF TruthyStr(module) THEN SelectSeq(rows, LAMBDA r : r.module = module[1]) ELSE rows

\* query.filter(ObserveLog.target_id == target_id), applied when an id is given
FilterTarget(rows, target_id) ==
    IF target_id # None THEN SelectSeq(rows, LAMBDA r : r.target_id = target_id) ELSE rows

\* ORDER BY timestamp DESC: repeatedly take the row with the greatest timestamp
RECURSIVE OrderByTimestampDesc(_)
OrderByTimestampDesc(rows) ==
    IF rows = <<>> THEN <<>>
    ELSE LET m == CHOOSE i \in 1..Len(rows) :
                      \A j \in 1..Len(rows) :
                          \/ rows[j].timestamp < rows[i].timestamp
                          \/ (rows[j].timestamp = rows[i].timestamp /\ i <= j)
             rest == [j \in 1..(Len(rows) - 1) |-> IF j < m THEN rows[j] ELSE rows[j + 1]]
         IN  <<rows[m]>> \o OrderByTimestampDesc(rest)

\* LIMIT n of SQLite (DATABASE_URL): a negative n is no limit at all
SqlLimit(rows, n) ==
    IF n < 0 THEN rows ELSE SubSeq(rows, 1, Min(n, Len(rows)))

get_logs(module, target_id, limit) ==
    SqlLimit(OrderByTimestampDesc(FilterTarget(FilterModule(log, module), target_id)), limit)

GetLogs(module, target_id, limit) ==
    /\ last' = IF limit > MaxLimit
               THEN \* Query(le=1000): the request is rejected before the handler runs
                    Served("get_logs", 422, None, None, None, None,
                           <<module, target_id, limit>>, <<>>)
               ELSE Served("get_logs", 200, None, None, None, None,
                           <<module, target_id, limit>>, get_logs(module, target_id, limit))
    /\ UNCHANGED <<events, stops, recoveries, log, now, year, nPrior, logCap, trace, reqs>>

\* db.query(T).filter(T.column == one of values).count()
CountWhere(table, column, values) ==
    Cardinality({k \in 1..Len(table) : table[k][column] \in values})

\* a variant that counts every stop, released ones included
get_stats_all_stops ==
    [total_events |-> nPrior + Len(events),
     active_stops |-> Len(stops),
     active_recoveries |-> CountWhere(recoveries, "status", {"initiated", "in_progress"}),
     events_by_severity |->
         [s \in {"critical", "high", "medium", "low"} |->
             CountWhere(events, "severity", {s})],
     events_by_status |->
         [s \in {"registered", "h_stop_active", "recovering", "resolved"} |->
             CountWhere(events, "status", {s})]]

get_stats ==
    [total_events |-> nPrior + Len(events),
     active_stops |-> CountWhere(stops, "status", {"active"}),
     active_recoveries |-> CountWhere(recoveries, "status", {"initiated", "in_progress"}),
     events_by_severity |->
         [s \in {"critical", "high", "medium", "low"} |->
             CountWhere(events, "severity", {s})],
     events_by_status |->
         [s \in {"registered", "h_stop_active", "recovering", "resolved"} |->
             CountWhere(events, "status", {s})]]

GetStats ==
    /\ last' = Served("get_stats", 200, None, None, None, None, None, get_stats)
    /\ UNCHANGED <<events, stops, recoveries, log, now, year, nPrior, logCap, trace, reqs>>

----------------------------------------------------------------------------
(* The clock *)

NewYear ==
    /\ year < MaxYear
    /\ year' = year + 1
    /\ UNCHANGED <<events, stops, recoveries, log, now, nPrior, last, logCap, trace, reqs>>

----------------------------------------------------------------------------
(* Requests side by side.  A handler runs in a worker thread on a session   *)
(* of its own; each of its queries and each of its commits is one step, and *)
(* the steps of two requests interleave freely.  A commit is one            *)
(* transaction of the storage engine: all of its rows or none.              *)

\* a new request is served on the first session at rest
FreeSlot(r) == reqs[r].pc = "idle" /\ \A q \in Requests : q < r => reqs[q].pc # "idle"

InFlight(op) == Cardinality({r \in Requests : reqs[r].op = op})

InFlightAll == Cardinality({r \in Requests : reqs[r].pc # "idle"})

\* a variant whose commit leaves the event to a later transaction
session_write_deferred(ev, loaded, new) == ev

\* the UPDATE a session flushes for a loaded event: the columns whose
\* assigned value differs from the value the session loaded
session_write(ev, loaded, new) ==
    [ev EXCEPT !.status = IF new.status = loaded THEN @ ELSE new.status,
               !.updated_at = new.updated_at]

\* create_event: generate_h_id reads the year and counts the rows
CreateEventCount(r, sev) ==
    /\ FreeSlot(r)
    /\ Len(events) + InFlight("create_event") < MaxEvents
    /\ Len(log) + InFlightAll < logCap
    /\ reqs' = [reqs EXCEPT ![r] =
                   [IdleSlot EXCEPT !.op = "create_event", !.pc = "commit",
                                    !.id = Some(generate_h_id(year, CountEvents)),
                                    !.arg = Some(sev), !.count = CountEvents,
                                    !.yr = year]]
    /\ UNCHANGED <<events, stops, recoveries, log, now, year, nPrior, last, logCap, trace>>

\* create_event: db.add, db.commit
CreateEventCommit(r) ==
    /\ reqs[r].op = "create_event"
    /\ reqs[r].pc = "commit"
    /\ LET h_id == reqs[r].id[1]
       IN  IF IntegrityError(events, "h_id", h_id)
           THEN /\ last' = Served("create_event", 500, h_id, None, None, None, None, <<>>)
                /\ reqs' = [reqs EXCEPT ![r] = IdleSlot]
                /\ UNCHANGED <<events, now>>
           ELSE /\ events' = Append(events, NewEvent(h_id, reqs[r].arg[1], now + 1))
                /\ now' = now + 2
                /\ reqs' = [reqs EXCEPT ![r].pc = "log"]
                /\ UNCHANGED last
    /\ UNCHANGED <<stops, recoveries, log, year, nPrior, logCap, trace>>

\* create_event: log_action and the response
CreateEventLog(r) ==
    /\ reqs[r].op = "create_event"
    /\ reqs[r].pc = "log"
    /\ LET h_id == reqs[r].id[1]
       IN  /\ log' = log_action(log, "h_event", "created", Some(h_id), Some("automated"),
                                [severity |-> reqs[r].arg[1]], now + 1)
           /\ last' = Served("create_event", 200, h_id, Some(h_id), None, None, None, <<>>)
           /\ trace' = Did("create_event", h_id, reqs[r].arg[1])
    /\ now' = now + 1
    /\ reqs' = [reqs EXCEPT ![r] = IdleSlot]
    /\ UNCHANGED <<events, stops, recoveries, year, nPrior, logCap>>

\* activate_stop, "Verify H-Event exists": the session loads the event
ActivateStopLookup(r, h_id, measure) ==
    /\ FreeSlot(r)
    /\ Len(stops) + InFlight("activate_stop") < MaxStops
    /\ Len(log) + InFlightAll < logCap
    /\ LET i == IndexOf(events, "h_id", h_id)
       IN  /\ i # 0
           /\ reqs' = [reqs EXCEPT ![r] =
                          [IdleSlot EXCEPT !.op = "activate_stop", !.pc = "gen",
                                           !.target = Some(h_id),
                                           !.loaded = Some(events[i].status),
                                           !.arg = Some(measure)]]
    /\ UNCHANGED <<events, stops, recoveries, log, now, year, nPrior, last, logCap, trace>>

\* activate_stop: generate_stop_id, then the assignments to the loaded event
ActivateStopGen(r) ==
    /\ reqs[r].op = "activate_stop"
    /\ reqs[r].pc = "gen"
    /\ reqs' = [reqs EXCEPT ![r].pc = "commit",
                            ![r].id = Some(generate_stop_id(year, Len(stops))),
                            ![r].count = Len(stops),
                            ![r].yr = year,
                            ![r].t = now + 1]
    /\ now' = now + 1
    /\ UNCHANGED <<events, stops, recoveries, log, year, nPrior, last, logCap, trace>>

\* activate_stop: db.commit, the new stop and the event in one transaction
ActivateStopCommit(r) ==
    /\ reqs[r].op = "activate_stop"
    /\ reqs[r].pc = "commit"
    /\ LET stop_id == reqs[r].id[1]
           h_id == reqs[r].target[1]
           i == IndexOf(events, "h_id", h_id)
       IN  IF IntegrityError(stops, "stop_id", stop_id)
           THEN /\ last' = Served("activate_stop", 500, h_id, None, None, None, None, <<>>)
                /\ reqs' = [reqs EXCEPT ![r] = IdleSlot]
                /\ UNCHANGED <<events, stops, now>>
           ELSE /\ stops' = Append(stops, NewStop(stop_id, h_id, reqs[r].arg[1], now + 1))
                /\ events' = [events EXCEPT ![i] =
                                 session_write(@, reqs[r].loaded[1],
                                               stop_event(@, reqs[r].t))]
                /\ now' = now + 1
                /\ reqs' = [reqs EXCEPT ![r].pc = "log"]
                /\ UNCHANGED last
    /\ UNCHANGED <<recoveries, log, year, nPrior, logCap, trace>>

\* activate_stop: log_action and the response
ActivateStopLog(r) ==
    /\ reqs[r].op = "activate_stop"
    /\ reqs[r].pc = "log"
    /\ LET stop_id == reqs[r].id[1]
           h_id == reqs[r].target[1]
       IN  /\ log' = log_action(log, "h_stop", "activated", Some(stop_id), Some("system"),
                                [h_id |-> h_id, measure |-> reqs[r].arg[1]], now + 1)
           /\ last' = Served("activate_stop", 200, h_id, Some(stop_id), reqs[r].loaded,
                             None, None, <<>>)
           /\ trace' = Did("activate_stop", stop_id, reqs[r].arg[1])
    /\ now' = now + 1
    /\ reqs' = [reqs EXCEPT ![r] = IdleSlot]
    /\ UNCHANGED <<events, stops, recoveries, year, nPrior, logCap>>

\* initiate_recovery, "Verify H-Event exists": the session loads the event
InitiateRecoveryLookup(r, h_id, body) ==
    /\ FreeSlot(r)
    /\ Len(recoveries) + InFlight("initiate_recovery") < MaxRecoveries
    /\ Len(log) + InFlightAll < logCap
    /\ LET i == IndexOf(events, "h_id", h_id)
       IN  /\ i # 0
           /\ reqs' = [reqs EXCEPT ![r] =
                          [IdleSlot EXCEPT !.op = "initiate_recovery", !.pc = "gen",
                                           !.target = Some(h_id),
                                           !.loaded = Some(events[i].status),
                                           !.arg = Some(body)]]
    /\ UNCHANGED <<events, stops, recoveries, log, now, year, nPrior, last, logCap, trace>>

\* initiate_recovery: generate_recovery_id, then the assignments to the event
InitiateRecoveryGen(r) ==
    /\ reqs[r].op = "initiate_recovery"
    /\ reqs[r].pc = "gen"
    /\ reqs' = [reqs EXCEPT ![r].pc = "commit",
                            ![r].id = Some(generate_recovery_id(year, Len(recoveries))),
                            ![r].count = Len(recoveries),
                            ![r].yr = year,
                            ![r].t = now + 1]
    /\ now' = now + 1
    /\ UNCHANGED <<events, stops, recoveries, log, year, nPrior, last, logCap, trace>>

\* initiate_recovery: db.commit, the new recovery and the event in one transaction
InitiateRecoveryCommit(r) ==
    /\ reqs[r].op = "initiate_recovery"
    /\ reqs[r].pc = "commit"
    /\ LET recovery_id == reqs[r].id[1]
           h_id == reqs[r].target[1]
           body == reqs[r].arg[1]
           i == IndexOf(events, "h_id", h_id)
       IN  IF IntegrityError(recoveries, "recovery_id", recovery_id)
           THEN /\ last' = Served("initiate_recovery", 500, h_id, None, None, None, None, <<>>)
                /\ reqs' = [reqs EXCEPT ![r] = IdleSlot]
                /\ UNCHANGED <<events, recoveries, now>>
           ELSE /\ recoveries' = Append(recoveries,
                                        NewRecovery(recovery_id, h_id, body[1], body[2], now + 1))
                /\ events' = [events EXCEPT ![i] =
                                 session_write(@, reqs[r].loaded[1],
                                               recover_event(@, reqs[r].t))]
                /\ now' = now + 2
                /\ reqs' = [reqs EXCEPT ![r].pc = "log"]
                /\ UNCHANGED last
    /\ UNCHANGED <<stops, log, year, nPrior, logCap, trace>>

\* initiate_recovery: log_action and the response
InitiateRecoveryLog(r) ==
    /\ reqs[r].op = "initiate_recovery"
    /\ reqs[r].pc = "log"
    /\ LET recovery_id == reqs[r].id[1]
           h_id == reqs[r].target[1]
       IN  /\ log' = log_action(log, "r0", "initiated", Some(recovery_id), None,
                                [h_id |-> h_id, affected |-> 0], now + 1)
           /\ last' = Served("initiate_recovery", 200, h_id, Some(recovery_id),
                             reqs[r].loaded, None, None, <<>>)
           /\ trace' = Did("initiate_recovery", recovery_id, reqs[r].arg[1])
    /\ now' = now + 1
    /\ reqs' = [reqs EXCEPT ![r] = IdleSlot]
    /\ UNCHANGED <<events, stops, recoveries, year, nPrior, logCap>>

\* release_stop: the session loads the stop, checks it and assigns its columns
ReleaseStopLookup(r, stop_id, reason) ==
    /\ FreeSlot(r)
    /\ Len(log) + InFlightAll < logCap
    /\ LET k == IndexOf(stops, "stop_id", stop_id)
           code == release_check(stops, k)
       IN  /\ k # 0
           /\ IF code # 200
              THEN /\ last' = Served("release_stop", code, stop_id, None, None,
                                     Some(stops[k]), None, <<>>)
                   /\ UNCHANGED <<reqs, now>>
              ELSE /\ reqs' = [reqs EXCEPT ![r] =
                                  [IdleSlot EXCEPT !.op = "release_stop", !.pc = "event",
                                                   !.id = Some(stop_id),
                                                   !.target = Some(stops[k].h_id),
                                                   !.arg = Some(reason),
                                                   !.t = now + 1]]
                   /\ now' = now + 1
                   /\ UNCHANGED last
    /\ UNCHANGED <<events, stops, recoveries, log, year, nPrior, logCap, trace>>

\* a variant that journals the release before it is committed
ReleaseStopEvent_JournalFirst(r) ==
    /\ reqs[r].op = "release_stop"
    /\ reqs[r].pc = "event"
    /\ LET i == IndexOf(events, "h_id", reqs[r].target[1])
       IN  reqs' = [reqs EXCEPT ![r].pc = "commit",
                                ![r].loaded = Some(events[i].status),
                                ![r].t2 = now + 1]
    /\ log' = log_action(log, "h_stop", "released", reqs[r].id, Some("operator"),
                         [reason |-> reqs[r].arg[1]], now + 1)
    /\ now' = now + 1
    /\ UNCHANGED <<events, stops, recoveries, year, nPrior, last, logCap, trace>>

\* release_stop, "Update event status": the session loads the event and, if it
\* is halted, assigns its status and updated_at
ReleaseStopEvent(r) ==
    /\ reqs[r].op = "release_stop"
    /\ reqs[r].pc = "event"
    /\ LET i == IndexOf(events, "h_id", reqs[r].target[1])
       IN  reqs' = [reqs EXCEPT ![r].pc = "commit",
                                ![r].loaded = Some(events[i].status),
                                ![r].t2 = now + 1]
    /\ now' = now + 1
    /\ UNCHANGED <<events, stops, recoveries, log, year, nPrior, last, logCap, trace>>

\* release_stop: db.commit, the stop and the event in one transaction
ReleaseStopCommit(r) ==
    /\ reqs[r].op = "release_stop"
    /\ reqs[r].pc = "commit"
    /\ LET k == IndexOf(stops, "stop_id", reqs[r].id[1])
           i == IndexOf(events, "h_id", reqs[r].target[1])
           seen == [events[i] EXCEPT !.status = reqs[r].loaded[1]]
       IN  /\ stops' = [stops EXCEPT ![k] = release_row(@, reqs[r].arg[1], reqs[r].t)]
           /\ events' = IF seen.status = "h_stop_active"
                        THEN [events EXCEPT ![i] =
                                 session_write(@, reqs[r].loaded[1],
                                               release_event(seen, reqs[r].t2))]
                        ELSE events
    /\ reqs' = [reqs EXCEPT ![r].pc = "log"]
    /\ UNCHANGED <<recoveries, log, now, year, nPrior, last, logCap, trace>>

\* release_stop: log_action and the response
ReleaseStopLog(r) ==
    /\ reqs[r].op = "release_stop"
    /\ reqs[r].pc = "log"
    /\ log' = log_action(log, "h_stop", "released", reqs[r].id, Some("operator"),
                         [reason |-> reqs[r].arg[1]], now + 1)
    /\ last' = Served("release_stop", 200, reqs[r].id[1], None, reqs[r].loaded,
                      None, None, <<>>)
    /\ trace' = Did("release_stop", reqs[r].id[1], reqs[r].arg[1])
    /\ now' = now + 1
    /\ reqs' = [reqs EXCEPT ![r] = IdleSlot]
    /\ UNCHANGED <<events, stops, recoveries, year, nPrior, logCap>>

\* log_action when its commit raises: the handler has no try/except, the
\* exception ends the request with a server error, the mutation stays
JournalFailure(r) ==
    /\ reqs[r].pc = "log"
    /\ LET row == reqs[r].id
           id == IF reqs[r].op = "create_event" THEN reqs[r].id[1] ELSE reqs[r].target[1]
       IN  last' = Served(reqs[r].op, 500, id, row, reqs[r].loaded, None, None, <<>>)
    /\ reqs' = [reqs EXCEPT ![r] = IdleSlot]
    /\ UNCHANGED <<events, stops, recoveries, log, now, year, nPrior, logCap, trace>>

----------------------------------------------------------------------------
(* The service: one request at a time on an initially empty database *)

Idle ==
    [op |-> "none", code |-> 200, id |-> None, created |-> None, evBefore |-> None,
     rowBefore |-> None, args |-> None, rep |-> FALSE, result |-> <<>>]

Init ==
    /\ events = <<>>
    /\ stops = <<>>
    /\ recoveries = <<>>
    /\ log = <<>>
    /\ now = 0
    /\ year = MinYear
    /\ nPrior = 0
    /\ last = Idle
    /\ logCap = MaxLog
    /\ trace = <<>>
    /\ reqs = NoRequests

Next ==
    \/ \E sev \in Severities : CreateEvent(sev)
    \/ \E h \in EventIds, st \in EventStatuses : UpdateStatus(h, st, "because")
    \/ \E h \in EventIds, m \in StopMeasures : ActivateStop(h, m)
    \/ \E s \in StopIds, r \in ReleaseReasons : ReleaseStop(s, r)
    \/ \E h \in EventIds, b \in RecoveryBodies : InitiateRecovery(h, b)
    \/ \E r \in RecoveryIds, u \in RecoveryUpdates : UpdateRecovery(r, u)

Spec == Init /\ [][Next]_vars

\* the same service, also asked for identifiers that do not exist: narrow
\* payloads, followed for one audit entry more
InitErrors ==
    /\ events = <<>>
    /\ stops = <<>>
    /\ recoveries = <<>>
    /\ log = <<>>
    /\ now = 0
    /\ year = MinYear
    /\ nPrior = 0
    /\ last = Idle
    /\ logCap = MaxLog + 1
    /\ trace = <<>>
    /\ reqs = NoRequests

NextErrors ==
    \/ \E sev \in {"critical"} : CreateEvent(sev)
    \/ \E h \in EventIds \cup {MissingHId}, st \in OneStatus : UpdateStatus(h, st, "because")
    \/ \E h \in EventIds \cup {MissingHId}, m \in StopMeasures : ActivateStop(h, m)
    \/ \E s \in StopIds \cup {MissingStopId}, r \in ReleaseReasons : ReleaseStop(s, r)
    \/ \E h \in EventIds \cup {MissingHId}, b \in OneBody : InitiateRecovery(h, b)
    \/ \E r \in RecoveryIds \cup {MissingRecoveryId}, u \in OneUpdate : UpdateRecovery(r, u)

SpecErrors == InitErrors /\ [][NextErrors]_vars

\* the same service with the audit query
NextObserve ==
    \/ \E sev \in {"critical"} : CreateEvent(sev)
    \/ \E h \in EventIds, m \in StopMeasures : ActivateStop(h, m)
    \/ \E s \in StopIds, r \in ReleaseReasons : ReleaseStop(s, r)
    \/ \E m \in ModuleFilters, t \in TargetFilters, l \in Limits : GetLogs(m, t, l)

SpecObserve == Init /\ [][NextObserve]_vars

\* event registration on a database of any size, across a change of year
InitIds ==
    /\ events = <<>>
    /\ stops = <<>>
    /\ recoveries = <<>>
    /\ log = <<>>
    /\ now = 0
    /\ year = MinYear
    /\ nPrior \in PriorCounts
    /\ last = Idle
    /\ logCap = MaxLog
    /\ trace = <<>>
    /\ reqs = NoRequests

NextIds ==
    \/ \E sev \in AllSeverities : CreateEvent(sev)
    \/ NewYear

SpecIds == InitIds /\ [][NextIds]_vars

\* the same service with the statistics overview
NextStats ==
    \/ Next
    \/ GetStats

SpecStats == Init /\ [][NextStats]_vars

\* the three registrations on a database of any size, across a change of year
NextYears ==
    \/ \E sev \in {"critical"} : CreateEvent(sev)
    \/ \E h \in EventIds, m \in StopMeasures : ActivateStop(h, m)
    \/ \E h \in EventIds, b \in OneBody : InitiateRecovery(h, b)
    \/ NewYear

SpecYears == InitIds /\ [][NextYears]_vars

\* the same service with requests side by side, across a change of year,
\* followed for one audit entry less
InitConc ==
    /\ events = <<>>
    /\ stops = <<>>
    /\ recoveries = <<>>
    /\ log = <<>>
    /\ now = 0
    /\ year = MinYear
    /\ nPrior = 0
    /\ last = Idle
    /\ logCap = MaxLog - 1
    /\ trace = <<>>
    /\ reqs = NoRequests

NextConc ==
    \/ \E r \in Requests, sev \in {"critical"} : CreateEventCount(r, sev)
    \/ \E r \in Requests : CreateEventCommit(r)
    \/ \E r \in Requests : CreateEventLog(r)
    \/ \E r \in Requests, h \in EventIds, m \in StopMeasures : ActivateStopLookup(r, h, m)
    \/ \E r \in Requests : ActivateStopGen(r)
    \/ \E r \in Requests : ActivateStopCommit(r)
    \/ \E r \in Requests : ActivateStopLog(r)
    \/ \E r \in Requests, h \in EventIds, b \in OneBody : InitiateRecoveryLookup(r, h, b)
    \/ \E r \in Requests : InitiateRecoveryGen(r)
    \/ \E r \in Requests : InitiateRecoveryCommit(r)
    \/ \E r \in Requests : InitiateRecoveryLog(r)
    \/ NewYear

SpecConc == InitConc /\ [][NextConc]_vars

\* registrations and stops side by side on a storage engine that may refuse
\* the commit of an audit entry
NextFaults ==
    \/ \E r \in Requests, sev \in {"critical"} : CreateEventCount(r, sev)
    \/ \E r \in Requests : CreateEventCommit(r)
    \/ \E r \in Requests : CreateEventLog(r)
    \/ \E r \in Requests, h \in EventIds, m \in StopMeasures : ActivateStopLookup(r, h, m)
    \/ \E r \in Requests : ActivateStopGen(r)
    \/ \E r \in Requests : ActivateStopCommit(r)
    \/ \E r \in Requests : ActivateStopLog(r)
    \/ \E r \in Requests : JournalFailure(r)

SpecFaults == InitConc /\ [][NextFaults]_vars

\* registrations, stops, releases and recoveries side by side
NextAudit ==
    \/ \E r \in Requests, sev \in {"critical"} : CreateEventCount(r, sev)
    \/ \E r \in Requests : CreateEventCommit(r)
    \/ \E r \in Requests : CreateEventLog(r)
    \/ \E r \in Requests, h \in EventIds, m \in StopMeasures : ActivateStopLookup(r, h, m)
    \/ \E r \in Requests : ActivateStopGen(r)
    \/ \E r \in Requests : ActivateStopCommit(r)
    \/ \E r \in Requests : ActivateStopLog(r)
    \/ \E r \in Requests, s \in StopIds, x \in ReleaseReasons : ReleaseStopLookup(r, s, x)
    \/ \E r \in Requests : ReleaseStopEvent(r)
    \/ \E r \in Requests : ReleaseStopCommit(r)
    \/ \E r \in Requests : ReleaseStopLog(r)
    \/ \E r \in Requests, h \in EventIds, b \in OneBody : InitiateRecoveryLookup(r, h, b)
    \/ \E r \in Requests : InitiateRecoveryGen(r)
    \/ \E r \in Requests : InitiateRecoveryCommit(r)
    \/ \E r \in Requests : InitiateRecoveryLog(r)

SpecAudit == InitConc /\ [][NextAudit]_vars

----------------------------------------------------------------------------
(* Reading the state *)

EventRow(h_id) == events[IndexOf(events, "h_id", h_id)]

StopRow(stop_id) == stops[IndexOf(stops, "stop_id", stop_id)]

RecoveryRow(recovery_id) == recoveries[IndexOf(recoveries, "recovery_id", recovery_id)]

Succeeded(op) == last.op = op /\ last.code = 200

TimesDone(op, id) ==
    Cardinality({i \in 1..Len(trace) : trace[i].op = op /\ trace[i].id = id})

----------------------------------------------------------------------------
(* C1: a successful ActivateStop naming event E leaves E.status =           *)
(* "h_stop_active" right after the operation, whatever E's status was       *)
(* before (resolved, disputed and false_positive included).                 *)

C1_ActivateForcesStopActive ==
    Succeeded("activate_stop") => EventRow(last.id).status = "h_stop_active"

C1_Witness ==
    /\ Succeeded("activate_stop")
    /\ last.evBefore = Some("resolved")
    /\ EventRow(last.id).status = "h_stop_active"

(* C2: a successful ReleaseStop moves the stop's event to "investigating"   *)
(* exactly when the event was "h_stop_active" just before; in any other     *)
(* status the release still succeeds and the event's status is unchanged.   *)

C2_ReleaseMovesOnlyStopActive ==
    Succeeded("release_stop") =>
        LET before == last.evBefore[1]
            after == EventRow(last.rowBefore[1].h_id).status
        IN  /\ StopRow(last.id).status = "released"
            /\ before = "h_stop_active" => after = "investigating"
            /\ before # "h_stop_active" => after = before

C2_Witness ==
    /\ Succeeded("release_stop")
    /\ last.evBefore = Some("recovering")
    /\ EventRow(last.rowBefore[1].h_id).status = "recovering"

(* C3: ReleaseStop on a stop whose status is "released" fails with          *)
(* InvalidState (400), so no stop is released successfully more than once.  *)

C3_ReleasedStopRejected ==
    /\ (last.op = "release_stop" /\ last.rowBefore # None
            /\ last.rowBefore[1].status = "released") => last.code = 400
    /\ \A s \in StopIds : TimesDone("release_stop", s) <= 1

C3_Witness ==
    /\ last.op = "release_stop"
    /\ last.code = 400
    /\ TimesDone("release_stop", last.id) = 1

(* C4: a successful InitiateRecovery naming event E leaves E.status =       *)
(* "recovering" right after the operation, whatever E's status was before,  *)
(* and the new recovery has status "initiated".                             *)

C4_InitiateForcesRecovering ==
    Succeeded("initiate_recovery") =>
        /\ EventRow(last.id).status = "recovering"
        /\ RecoveryRow(last.created[1]).status = "initiated"

C4_Witness ==
    /\ Succeeded("initiate_recovery")
    /\ last.evBefore = Some("false_positive")
    /\ EventRow(last.id).status = "recovering"

(* C5: every successful mutating operation appends exactly one audit entry  *)
(* with the (module, action) of its kind and the id of the entity created   *)
(* or changed as target_id, so the log is as long as the number of          *)
(* successful mutating operations.                                          *)

AuditOf(op) ==
    CASE op = "create_event" -> <<"h_event", "created">>
      [] op = "update_event_status" -> <<"h_event", "status_updated">>
      [] op = "activate_stop" -> <<"h_stop", "activated">>
      [] op = "release_stop" -> <<"h_stop", "released">>
      [] op = "initiate_recovery" -> <<"r0", "initiated">>
      [] op = "update_recovery" -> <<"r0", "updated">>

C5_OneAuditEntryPerMutation ==
    /\ Len(log) = Len(trace)
    /\ \A i \in 1..Len(trace) :
           /\ <<log[i].module, log[i].action>> = AuditOf(trace[i].op)
           /\ log[i].target_id = Some(trace[i].id)

C5_Witness ==
    /\ Len(log) = 4
    /\ \E i, j \in 1..Len(trace) :
           trace[i].op = "update_event_status" /\ trace[j].op = "update_recovery"

(* C6: after any sequence of CreateEvent operations every stored event's    *)
(* h_id has the form HIR-<4-digit-year>-<5-digit-seq> and no two stored     *)
(* events have the same h_id.                                               *)

C6_HIdFormatAndUnique ==
    /\ \A i \in 1..Len(events) :
           /\ events[i].h_id.prefix = "HIR"
           /\ Len(events[i].h_id.year) = 4
           /\ Len(events[i].h_id.seq) = 5
    /\ \A i, j \in 1..Len(events) : events[i].h_id = events[j].h_id => i = j

(* C7: from an empty store, CreateEvent(critical), ActivateStop(pause),     *)
(* ReleaseStop(fixed), InitiateRecovery, UpdateStatus(resolved) on the same *)
(* event give the event status h_stop_active after the activation,          *)
(* investigating (stop released) after the release, recovering after the    *)
(* recovery and resolved at the end, and the log then holds exactly the 5   *)
(* entries created, activated, released, initiated, status_updated.         *)

DemoStep(i) ==
    CASE i = 1 -> trace[1].op = "create_event" /\ trace[1].arg = "critical"
      [] i = 2 -> /\ trace[2].op = "activate_stop" /\ trace[2].arg = "pause"
                  /\ StopRow(trace[2].id).h_id = trace[1].id
      [] i = 3 -> /\ trace[3].op = "release_stop" /\ trace[3].arg = "fixed"
                  /\ trace[3].id = trace[2].id
      [] i = 4 -> /\ trace[4].op = "initiate_recovery"
                  /\ RecoveryRow(trace[4].id).h_id = trace[1].id
      [] i = 5 -> /\ trace[5].op = "update_event_status" /\ trace[5].arg = "resolved"
                  /\ trace[5].id = trace[1].id

DemoDone(n) == Len(trace) = n /\ \A i \in 1..n : DemoStep(i)

C7_DemoScenario ==
    /\ DemoDone(2) => events[1].status = "h_stop_active"
    /\ DemoDone(3) => events[1].status = "investigating" /\ stops[1].status = "released"
    /\ DemoDone(4) => events[1].status = "recovering"
    /\ DemoDone(5) =>
           /\ events[1].status = "resolved"
           /\ [i \in 1..Len(log) |-> log[i].action]
                  = <<"created", "activated", "released", "initiated", "status_updated">>

C7_Witness == DemoDone(5) /\ events[1].status = "resolved" /\ Len(log) = 5

(* C8: for every integer N supplied as limit and every log content, the     *)
(* audit query returns at most min(N, 1000) entries, ordered by timestamp   *)
(* descending.  (No answer has fewer than 0 entries: below 0 the cap is     *)
(* read as 0, the weakest reading of the claim.)                            *)

QueryCap(n) == IF n < 0 THEN 0 ELSE Min(n, MaxLimit)

C8_QueryCappedNewestFirst ==
    last.op = "get_logs" =>
        /\ Len(last.result) <= QueryCap(last.args[3])
        /\ \A i, j \in 1..Len(last.result) :
               i < j => last.result[i].timestamp >= last.result[j].timestamp

(* C9: UpdateRecovery with only status supplied changes the recovery's      *)
(* status (and updated_at) and leaves measures and notes as they were;      *)
(* repeating the same call leaves status, measures and notes as after the   *)
(* first call.                                                              *)

OnlyStatus(u) == u.status # None /\ u.measures = None /\ u.notes = None

StatusOnlyEffect ==
    LET was == last.rowBefore[1]
        is == RecoveryRow(last.id)
    IN  /\ is.status = last.args.status[1]
        /\ is.updated_at > was.updated_at
        /\ is.measures = was.measures
        /\ is.notes = was.notes
        /\ last.rep => is.status = was.status

\* as stated: for every status supplied
C9_OnlyStatusUpdate ==
    (Succeeded("update_recovery") /\ OnlyStatus(last.args)) => StatusOnlyEffect

\* as amended: for every non-empty status supplied
C9_OnlyNonEmptyStatusUpdate ==
    (Succeeded("update_recovery") /\ OnlyStatus(last.args) /\ TruthyStr(last.args.status))
        => StatusOnlyEffect

C9_Witness ==
    /\ Succeeded("update_recovery")
    /\ OnlyStatus(last.args)
    /\ TruthyStr(last.args.status)
    /\ last.rep
    /\ last.rowBefore[1].measures # None
    /\ RecoveryRow(last.id).measures = last.rowBefore[1].measures

(* C10: every operation that fails (NotFound on a missing id, InvalidState  *)
(* for releasing a released stop) leaves the events, stops, recoveries and  *)
(* audit log exactly as they were before the call.                          *)

C10_FailureChangesNothing ==
    [][last'.code \in {400, 404} => UNCHANGED <<events, stops, recoveries, log>>]_vars

C10_Witness ==
    /\ last.op = "activate_stop"
    /\ last.code = 404
    /\ Len(log) > 0
    /\ \E s \in StopIds : StopRow(s).status = "released"

(* C11: UpdateStatus on an existing event succeeds for every pair (current  *)
(* status, new status), transitions out of resolved and false_positive      *)
(* included, and sets the status to the new value; its status_updated       *)
(* entry records as "old" the status just before the call and as "new" the  *)
(* status just after.                                                       *)

C11_AnyTransitionAccepted ==
    last.op = "update_event_status" =>
        /\ last.code = 200
        /\ EventRow(last.id).status = last.args[1]
        /\ log[Len(log)].action = "status_updated"
        /\ log[Len(log)].target_id = Some(last.id)
        /\ log[Len(log)].details.old = last.evBefore[1]
        /\ log[Len(log)].details.new = EventRow(last.id).status

C11_Witness ==
    /\ Succeeded("update_event_status")
    /\ last.evBefore = Some("false_positive")
    /\ EventRow(last.id).status = "registered"
    /\ log[Len(log)].details.old = "false_positive"

(* C12: the audit log is append-only: in every step the previous log is a   *)
(* prefix of the next log (no entry is changed or removed), and entry ids   *)
(* are strictly increasing in append order.                                 *)

IsPrefix(a, b) == Len(a) <= Len(b) /\ \A i \in 1..Len(a) : b[i] = a[i]

C12_LogAppendOnly ==
    [][/\ IsPrefix(log, log')
       /\ \A i, j \in 1..Len(log') : i < j => log'[i].id < log'[j].id]_vars

C12_Witness ==
    /\ Len(log) >= 3
    /\ log[1].id < log[2].id
    /\ log[2].id < log[3].id
    /\ log[2].target_id = log[3].target_id

(* C13: every stop is created with status "active", is never deleted, and   *)
(* its status changes at most once, from active to released: once released  *)
(* no operation changes its status, released_at or release_reason again;    *)
(* released_at and release_reason are set exactly when the status is        *)
(* released; the status "extended" is never reached.                        *)

StopLifecycleStep(old, new) ==
    /\ Len(old) <= Len(new)
    /\ \A k \in 1..Len(old) :
           /\ new[k].stop_id = old[k].stop_id
           /\ new[k].status # old[k].status =>
                  old[k].status = "active" /\ new[k].status = "released"
           /\ old[k].status = "released" =>
                  /\ new[k].status = "released"
                  /\ new[k].released_at = old[k].released_at
                  /\ new[k].release_reason = old[k].release_reason
    /\ \A k \in (Len(old) + 1)..Len(new) : new[k].status = "active"
    /\ \A k \in 1..Len(new) :
           /\ new[k].status \in {"active", "released"}
           /\ new[k].released_at # None <=> new[k].status = "released"
           /\ new[k].release_reason # None <=> new[k].status = "released"

C13_StopReleasedOnce == [][StopLifecycleStep(stops, stops')]_vars

C13_Witness ==
    /\ Succeeded("activate_stop")
    /\ \E s \in StopIds :
           /\ StopRow(s).status = "released"
           /\ StopRow(s).released_at # None
           /\ StopRow(s).release_reason = Some("fixed")
    /\ \E s \in StopIds : StopRow(s).status = "active"

(* C14 as stated: when two CreateEvent requests have both counted the       *)
(* events before either inserts, both hold the same h_id, exactly one       *)
(* insert is persisted and the other fails on the primary key; the store    *)
(* never holds two events with the same h_id.                               *)

Creating(r) == reqs[r].op = "create_event" /\ reqs[r].pc = "commit"

NoTwoEventsShareHId ==
    \A i, j \in 1..Len(events) : events[i].h_id = events[j].h_id => i = j

C14_SameCountSameHId ==
    /\ \A a, b \in Requests :
           Creating(a) /\ Creating(b) /\ reqs[a].count = reqs[b].count
               => reqs[a].id = reqs[b].id
    /\ NoTwoEventsShareHId

(* C14, amended: two CreateEvent requests that counted the same number of   *)
(* events in the same calendar year hold the same h_id; the commit of a     *)
(* request whose h_id is already stored fails with a server error and       *)
(* persists nothing, any other commit persists exactly its event; the store *)
(* never holds two events with the same h_id.                               *)

CreateCommitStep(r) ==
    IF \E i \in 1..Len(events) : events[i].h_id = reqs[r].id[1]
    THEN /\ last'.op = "create_event"
         /\ last'.code = 500
         /\ last'.id = reqs[r].id[1]
         /\ UNCHANGED stores
         /\ reqs'[r].pc = "idle"
    ELSE /\ Len(events') = Len(events) + 1
         /\ events'[Len(events')].h_id = reqs[r].id[1]
         /\ \A i \in 1..Len(events) : events'[i] = events[i]
         /\ reqs'[r].pc = "log"
         /\ last' = last

C14_SameYearSameHId ==
    [][/\ \A a, b \in Requests :
              Creating(a) /\ Creating(b) /\ reqs[a].count = reqs[b].count
                  /\ reqs[a].yr = reqs[b].yr
                  => reqs[a].id = reqs[b].id
       /\ \A r \in Requests : Creating(r) /\ ~Creating(r)' => CreateCommitStep(r)
       /\ \A i, j \in 1..Len(events') : events'[i].h_id = events'[j].h_id => i = j]_vars

C14_Witness ==
    /\ last.op = "create_event"
    /\ last.code = 500
    /\ Len(events) = 1
    /\ events[1].h_id = last.id
    /\ \E r \in Requests : reqs[r].op = "create_event" /\ reqs[r].pc = "log"
                           /\ reqs[r].id = Some(last.id)

(* C15: two simultaneous ActivateStop requests on the same existing event   *)
(* both succeed in every interleaving: no ActivateStop on an existing event *)
(* is answered with an error, each one persists its stop with status active *)
(* and leaves the event with status h_stop_active.                          *)

C15_BothActivationsSucceed ==
    last.op = "activate_stop" =>
        /\ last.code = 200
        /\ StopRow(last.created[1]).status = "active"
        /\ StopRow(last.created[1]).h_id = last.id
        /\ (\A r \in Requests : reqs[r].op \in {"none", "activate_stop"})
               => EventRow(last.id).status = "h_stop_active"

(* C16 as stated: ActivateStop is not atomic over its two rows: the step    *)
(* that persists the new stop leaves the referenced event as it was, and    *)
(* likewise the step that persists a new recovery.                          *)

C16_StopPersistedBeforeEvent ==
    [][(Len(stops') > Len(stops) \/ Len(recoveries') > Len(recoveries))
           => events' = events]_vars

(* C16, amended: ActivateStop persists the new stop and its write of the    *)
(* referenced event in one commit: in the step that persists the stop the   *)
(* event takes the request's updated_at and the status h_stop_active        *)
(* (unless the request had loaded the event with that status, and then the  *)
(* status is left as stored), while the audit entry is not yet appended;    *)
(* likewise InitiateRecovery with the status recovering.                    *)

Committing(r, op) == reqs[r].op = op /\ reqs[r].pc = "commit" /\ reqs'[r].pc = "log"

EventWrittenWith(r, st) ==
    LET i == IndexOf(events, "h_id", reqs[r].target[1])
    IN  /\ events'[i].updated_at = reqs[r].t
        /\ events'[i].status = IF reqs[r].loaded = Some(st) THEN events[i].status ELSE st
        /\ \A j \in 1..Len(events) : j # i => events'[j] = events[j]
        /\ log' = log

C16_RowAndEventInOneCommit ==
    [][/\ \A r \in Requests :
              /\ Committing(r, "activate_stop") =>
                     /\ stops' = Append(stops, stops'[Len(stops')])
                     /\ stops'[Len(stops')].stop_id = reqs[r].id[1]
                     /\ stops'[Len(stops')].h_id = reqs[r].target[1]
                     /\ EventWrittenWith(r, "h_stop_active")
              /\ Committing(r, "initiate_recovery") =>
                     /\ recoveries' = Append(recoveries, recoveries'[Len(recoveries')])
                     /\ recoveries'[Len(recoveries')].recovery_id = reqs[r].id[1]
                     /\ recoveries'[Len(recoveries')].h_id = reqs[r].target[1]
                     /\ EventWrittenWith(r, "recovering")
       /\ Len(stops') > Len(stops) => \E r \in Requests : Committing(r, "activate_stop")
       /\ Len(recoveries') > Len(recoveries)
              => \E r \in Requests : Committing(r, "initiate_recovery")]_vars

C16_Witness ==
    \E a, b \in Requests :
        /\ reqs[a].op = "activate_stop"
        /\ reqs[a].pc = "log"
        /\ StopRow(reqs[a].id[1]).h_id = reqs[a].target[1]
        /\ EventRow(reqs[a].target[1]).status = "h_stop_active"
        /\ EventRow(reqs[a].target[1]).updated_at = reqs[a].t
        /\ \A i \in 1..Len(log) : log[i].target_id # reqs[a].id
        /\ reqs[b].op = "initiate_recovery"
        /\ reqs[b].pc = "gen"
        /\ reqs[b].target = reqs[a].target
        /\ reqs[b].loaded = Some("h_stop_active")

(* C17: the sequence part of a generated id is the global count of records  *)
(* of its type plus one and never restarts: with one request at a time the  *)
(* n-th event ever created carries the sequence number n, and likewise the  *)
(* n-th stop and the n-th recovery, also when the calendar year changes     *)
(* between two creations; sequence numbers strictly increase in creation    *)
(* order.                                                                   *)

RECURSIVE SeqNumber(_)
SeqNumber(ds) ==
    IF ds = <<>> THEN 0 ELSE 10 * SeqNumber(SubSeq(ds, 1, Len(ds) - 1)) + ds[Len(ds)]

C17_SequenceIsGlobalCount ==
    /\ \A i \in 1..Len(events) : SeqNumber(events[i].h_id.seq) = nPrior + i
    /\ \A i \in 1..Len(stops) : SeqNumber(stops[i].stop_id.seq) = i
    /\ \A i \in 1..Len(recoveries) : SeqNumber(recoveries[i].recovery_id.seq) = i
    /\ \A i, j \in 1..Len(events) :
           i < j => SeqNumber(events[i].h_id.seq) < SeqNumber(events[j].h_id.seq)
    /\ \A i, j \in 1..Len(stops) :
           i < j => SeqNumber(stops[i].stop_id.seq) < SeqNumber(stops[j].stop_id.seq)
    /\ \A i, j \in 1..Len(recoveries) :
           i < j => SeqNumber(recoveries[i].recovery_id.seq)
                        < SeqNumber(recoveries[j].recovery_id.seq)

C17_Witness ==
    /\ Len(events) = 2
    /\ events[1].h_id.year # events[2].h_id.year
    /\ SeqNumber(events[2].h_id.seq) = 100001
    /\ Len(recoveries) = 2
    /\ recoveries[1].recovery_id.year # recoveries[2].recovery_id.year
    /\ SeqNumber(recoveries[2].recovery_id.seq) = 2

(* C18: UpdateRecovery overwrites a field only when a non-empty value is    *)
(* supplied for it: an empty measures list, an empty notes string or an     *)
(* empty status string leaves that field unchanged, so measures and notes   *)
(* cannot be cleared once set; the call still succeeds and still appends    *)
(* an (r0, updated) log entry.                                              *)

C18_EmptyValuesLeaveFields ==
    Succeeded("update_recovery") =>
        LET was == last.rowBefore[1]
            is == RecoveryRow(last.id)
            u == last.args
        IN  /\ is.status = IF TruthyStr(u.status) THEN u.status[1] ELSE was.status
            /\ is.measures = IF TruthyList(u.measures) THEN u.measures ELSE was.measures
            /\ is.notes = IF TruthyStr(u.notes) THEN u.notes ELSE was.notes
            /\ TruthyList(was.measures) => TruthyList(is.measures)
            /\ TruthyStr(was.notes) => TruthyStr(is.notes)
            /\ log[Len(log)].module = "r0"
            /\ log[Len(log)].action = "updated"
            /\ log[Len(log)].target_id = Some(last.id)

C18_Witness ==
    /\ Succeeded("update_recovery")
    /\ last.args.measures = Some(<<>>)
    /\ last.args.notes = Some("")
    /\ last.rowBefore[1].measures = Some(<<"m1">>)
    /\ RecoveryRow(last.id).measures = Some(<<"m1">>)
    /\ RecoveryRow(last.id).notes = Some("n1")
    /\ log[Len(log)].action = "updated"

(* C19: a failure of the audit append is never surfaced to the caller: a    *)
(* request whose mutation was committed returns its success result, also    *)
(* when appending its log entry failed.                                     *)

C19_JournalFailureNotSurfaced ==
    (last.created # None /\ last.op \in {"create_event", "activate_stop", "initiate_recovery"})
        => last.code = 200

(* C20: Stats is a pure read whose counts match the stores: total_events is *)
(* the number of successful CreateEvent calls, active_stops the number of   *)
(* successful ActivateStop calls minus the number of successful ReleaseStop *)
(* calls, active_recoveries the number of recoveries whose status is        *)
(* initiated or in_progress, and the call changes no event, stop, recovery  *)
(* or log entry.                                                            *)

Calls(op) == Cardinality({i \in 1..Len(trace) : trace[i].op = op})

C20_StatsPureAndExact ==
    [][last'.op = "get_stats" =>
           /\ UNCHANGED <<events, stops, recoveries, log>>
           /\ last'.code = 200
           /\ last'.result.total_events = Calls("create_event")
           /\ last'.result.active_stops = Calls("activate_stop") - Calls("release_stop")
           /\ last'.result.active_recoveries =
                  Cardinality({k \in 1..Len(recoveries) :
                                  recoveries[k].status \in {"initiated", "in_progress"}})]_vars

C20_Witness ==
    /\ last.op = "get_stats"
    /\ last.result.total_events = 1
    /\ last.result.active_stops = 1
    /\ Calls("activate_stop") = 2
    /\ Calls("release_stop") = 1
    /\ last.result.active_recoveries = 0

(* C21: ReleaseStop decides the event-side transition from the event's      *)
(* status alone and never looks at other stops: when two active stops       *)
(* reference an event whose status is h_stop_active, releasing one of them  *)
(* moves the event to investigating while the other stop still has status   *)
(* active.                                                                  *)

OtherActiveStops(k) ==
    {j \in 1..Len(stops) : j # k /\ stops[j].h_id = stops[k].h_id
                                 /\ stops[j].status = "active"}

C21_ReleaseIgnoresOtherStops ==
    [][\A k \in 1..Len(stops) :
           (stops[k].status = "active" /\ stops'[k].status = "released") =>
               LET i == IndexOf(events, "h_id", stops[k].h_id)
               IN  /\ events[i].status = "h_stop_active"
                          => events'[i].status = "investigating"
                   /\ events[i].status # "h_stop_active"
                          => events'[i].status = events[i].status
                   /\ \A j \in OtherActiveStops(k) : stops'[j] = stops[j]]_vars

C21_Witness ==
    /\ Succeeded("release_stop")
    /\ last.evBefore = Some("h_stop_active")
    /\ EventRow(last.rowBefore[1].h_id).status = "investigating"
    /\ StopRow(last.id).status = "released"
    /\ \E s \in StopIds : /\ s # last.id
                          /\ StopRow(s).h_id = last.rowBefore[1].h_id
                          /\ StopRow(s).status = "active"

(* C22: UpdateStatus changes only the targeted event's status and           *)
(* updated_at and appends one log entry: every other event, every stop and  *)
(* every recovery is unchanged, so an event set to resolved leaves the      *)
(* stops that reference it active and its recoveries in their status;       *)
(* symmetrically UpdateRecovery changes no event and no stop.               *)

Answers(op) == last'.op = op /\ last'.code = 200 /\ now' # now

C22_UpdateFrame ==
    [][/\ Answers("update_event_status") =>
              LET i == IndexOf(events, "h_id", last'.id)
              IN  /\ Len(events') = Len(events)
                  /\ events'[i] = [events[i] EXCEPT !.status = last'.args[1],
                                                    !.updated_at = events'[i].updated_at]
                  /\ \A j \in 1..Len(events) : j # i => events'[j] = events[j]
                  /\ stops' = stops
                  /\ recoveries' = recoveries
                  /\ log' = Append(log, log'[Len(log')])
                  /\ log'[Len(log')].action = "status_updated"
       /\ Answers("update_recovery") =>
              LET k == IndexOf(recoveries, "recovery_id", last'.id)
              IN  /\ events' = events
                  /\ stops' = stops
                  /\ Len(recoveries') = Len(recoveries)
                  /\ \A j \in 1..Len(recoveries) : j # k => recoveries'[j] = recoveries[j]
                  /\ log' = Append(log, log'[Len(log')])]_vars

C22_Witness ==
    /\ Succeeded("update_event_status")
    /\ EventRow(last.id).status = "resolved"
    /\ \E s \in StopIds : StopRow(s).h_id = last.id /\ StopRow(s).status = "active"
    /\ \E r \in RecoveryIds : /\ RecoveryRow(r).h_id = last.id
                              /\ RecoveryRow(r).status = "initiated"

(* C23: the audit entry of an operation is committed in a separate step     *)
(* strictly after the operation's mutation is committed: in every reachable *)
(* state, also between the two commits and with requests interleaved, every *)
(* log entry's target_id names an entity that exists in the store of the    *)
(* entry's module (event for h_event, stop for h_stop, recovery for r0),    *)
(* and a released, activated or initiated entry is never present before the *)
(* state change it records.                                                 *)

EntryRecorded(e, ev, st, rec) ==
    LET id == e.target_id[1]
    IN  /\ e.module = "h_event" => \E i \in 1..Len(ev) : ev[i].h_id = id
        /\ e.module = "h_stop" => \E k \in 1..Len(st) : st[k].stop_id = id
        /\ e.module = "r0" => \E k \in 1..Len(rec) : rec[k].recovery_id = id
        /\ e.action = "activated" =>
               \E k \in 1..Len(st) : st[k].stop_id = id /\ st[k].h_id = e.details.h_id
        /\ e.action = "released" =>
               \E k \in 1..Len(st) : /\ st[k].stop_id = id
                                     /\ st[k].status = "released"
                                     /\ st[k].released_at # None
        /\ e.action = "initiated" =>
               \E k \in 1..Len(rec) : rec[k].recovery_id = id /\ rec[k].h_id = e.details.h_id

C23_AuditAfterMutation ==
    [][/\ \A n \in 1..Len(log') : EntryRecorded(log'[n], events', stops', recoveries')
       /\ log' # log =>
              /\ UNCHANGED <<events, stops, recoveries>>
              /\ \A n \in (Len(log) + 1)..Len(log') :
                     EntryRecorded(log'[n], events, stops, recoveries)
              /\ \E r \in Requests : reqs[r].pc = "log" /\ reqs'[r].pc = "idle"]_vars

C23_Witness ==
    \E a, b \in Requests :
        /\ reqs[a].op = "activate_stop"
        /\ reqs[a].pc = "log"
        /\ StopRow(reqs[a].id[1]).status = "released"
        /\ reqs[b].op = "release_stop"
        /\ reqs[b].pc = "log"
        /\ reqs[b].id = reqs[a].id
        /\ \A n \in 1..Len(log) : log[n].target_id # reqs[a].id

====
